---------------------------- MODULE Spec2Model ----------------------------
(***************************************************************************)
(* CKY recognizer of PAA-CKY.                                              *)
(*                                                                         *)
(* The repository holds two versions of class Gramatica:                   *)
(*   src/cky.py   the grammar is given to the constructor (deep copy);     *)
(*   src/main.py  the object is built empty and carregar_gramatica loads   *)
(*                a grammar into it, any number of times.                  *)
(* Both run the same algoritme_cky; they differ in how the object gets its *)
(* grammar and in _comprovar_derivacio_buida.                              *)
(*                                                                         *)
(* A grammar is a Python dict from a non-terminal to a list of bodies; a   *)
(* body is a sequence of symbols (a list of strings, or a string read      *)
(* character by character).  The code only ever iterates a list of bodies  *)
(* to add to a set or to return True on the first hit, so the list is      *)
(* modelled as the set of its elements.  A body is a TLA+ sequence of      *)
(* strings; Python's 0-based frase[col] is frase[col + 1] here.            *)
(*                                                                         *)
(* Python set objects have identity: heap maps a reference to the set it   *)
(* holds, regles_binaries maps a key to the reference of its set and taula *)
(* maps a cell to the reference of its set.                                *)
(***************************************************************************)
EXTENDS Integers, Sequences, FiniteSets, TLC

VARIABLES
    modul,            \* "cky" or "main": the file whose class the object is
    gramatica,        \* self.gramatica
    regles_binaries,  \* self.regles_binaries: key -> reference of a set
    simbol_arrel,     \* self.simbol_arrel
    heap,             \* reference -> contents of the set object
    carregat,         \* history: arguments of the call that gave the grammar,
                      \*          and whether it replaced an earlier grammar
    pc,               \* position of the current algoritme_cky call
    frase,            \* argument of the current call
    taula,            \* local: cell <<i, j>> -> reference of a set
    col, n_fila, diag, k,   \* locals of the loops
    resultat,         \* value returned (meaningful when pc = "fet")
    visites           \* history: cell -> loop bodies that wrote to it so far

vars == <<modul, gramatica, regles_binaries, simbol_arrel, heap, carregat,
          pc, frase, taula, col, n_fila, diag, k, resultat, visites>>

objecte == <<modul, gramatica, regles_binaries, simbol_arrel, carregat>>
locals == <<col, n_fila, diag, k>>

-----------------------------------------------------------------------------
(* Bounds and the input universe *)

MaxLen == 3
MaxRegles == 2
MaxReglesCarrega == 1

NoTerminals == {"S", "A"}
Terminals == {"a", "b"}
Arrels == {"S", "A", "Z"}

CosMalformat == <<"a", "S", "A">>

Cossos ==
    {<<t>> : t \in Terminals}
        \cup {<<B, C>> : B \in NoTerminals, C \in NoTerminals}
        \cup {<< >>, <<"ε">>, <<"">>, CosMalformat}

ReglesUniv == {<<A, cos>> : A \in NoTerminals, cos \in Cossos}

RECURSIVE ConjuntsRegles(_)
ConjuntsRegles(m) ==
    IF m = 0 THEN {{}}
    ELSE LET P == ConjuntsRegles(m - 1)
         IN  P \cup {R \cup {r} : R \in P, r \in ReglesUniv}

GramaticaDe(R) ==
    [A \in {r[1] : r \in R} |-> {r[2] : r \in {x \in R : x[1] = A}}]

G1 ==
    [S |-> {<<"a">>, <<"X", "A">>, <<"A", "X">>, <<"b">>},
     A |-> {<<"R", "B">>},
     B |-> {<<"A", "X">>, <<"b">>, <<"a">>},
     X |-> {<<"a">>},
     R |-> {<<"X", "B">>}]

G2 ==
    [S |-> {<<"A", "B">>, <<"C", "D">>, <<"C", "B">>, <<"S", "S">>},
     A |-> {<<"B", "C">>, <<"a">>},
     B |-> {<<"S", "C">>, <<"b">>},
     C |-> {<<"D", "D">>, <<"b">>},
     D |-> {<<"B", "A">>}]

\* G1 with bodies of three and four symbols added.
G1Malformada ==
    [G1 EXCEPT !.S = @ \cup {<<"a", "X", "A">>},
               !.A = @ \cup {<<"b", "X", "A">>, <<"X", "B", "R", "B">>}]

\* The inputs <<grammar, start symbol>>.  The generated grammars are every
\* set of at most m rules over NoTerminals, which is closed under renaming the
\* non-terminals, so they are taken with the default start symbol 'S' only (a
\* grammar without a rule for S is one whose start symbol is not a key); the
\* named grammars are taken with every start symbol of Arrels.
Entrades(m, anomenades) ==
    {<<GramaticaDe(R), "S">> : R \in ConjuntsRegles(m)} \cup (anomenades \X Arrels)

EntradesCky == Entrades(MaxRegles, {G1, G2, G1Malformada})

EntradesCarrega == Entrades(MaxReglesCarrega, {G1, G2})

RECURSIVE Frases(_)
Frases(m) ==
    IF m = 0 THEN {<< >>}
    ELSE LET P == Frases(m - 1)
         IN  P \cup {Append(w, t) : w \in {x \in P : Len(x) = m - 1}, t \in Terminals}

-----------------------------------------------------------------------------
(* The object *)

None == [None |-> TRUE]

EsNone(x) == DOMAIN x = {"None"}

RefIdx(clau) == <<"idx", clau>>
RefCel(i, j) == <<"cel", <<i, j>>>>

EsRefIdx(r) == r[1] = "idx"

\* Mutant: len(produccio) >= 2 instead of == 2.
preprocessar_regles_binaries_llarg(g) ==
    LET binaris == {p \in UNION {g[A] : A \in DOMAIN g} : Len(p) >= 2}
    IN  [clau \in {<<p[1], p[2]>> : p \in binaris} |->
            {A \in DOMAIN g : \E p \in g[A] : Len(p) >= 2 /\ <<p[1], p[2]>> = clau}]

preprocessar_regles_binaries(g) ==
    LET binaris == {p \in UNION {g[A] : A \in DOMAIN g} : Len(p) = 2}
    IN  [clau \in {<<p[1], p[2]>> : p \in binaris} |->
            {A \in DOMAIN g : \E p \in g[A] : Len(p) = 2 /\ <<p[1], p[2]>> = clau}]

preprocessar_gramatica(g) ==
    LET binaris == {p \in UNION {g[A] : A \in DOMAIN g} : Len(p) = 2}
    IN  [clau \in {<<p[1], p[2]>> : p \in binaris} |->
            {A \in DOMAIN g : \E p \in g[A] : Len(p) = 2 /\ <<p[1], p[2]>> = clau}]

\* The set objects of an index: one fresh set per key.
ReferenciesIndex(idx) == [clau \in DOMAIN idx |-> RefIdx(clau)]
HeapIndex(idx) == [r \in {RefIdx(clau) : clau \in DOMAIN idx} |-> idx[r[2]]]

\* The index as a value: key -> contents of its set.
ValorIndex(rb, h) == [clau \in DOMAIN rb |-> h[rb[clau]]]

comprovar_derivacio_buida(g, s) ==
    IF s \in DOMAIN g
    THEN \E produccio \in g[s] : Len(produccio) = 1 /\ produccio[1] \in {"ε", ""}
    ELSE FALSE

comprovar_derivacio_buida_main(g, s) ==
    IF s \in DOMAIN g
    THEN \E produccio \in g[s] : produccio = << >>
    ELSE FALSE

-----------------------------------------------------------------------------
(* algoritme_cky *)

\* Python list indexing: -n .. n-1 are valid, anything else is an IndexError.
IndexValid(i, n) == -n <= i /\ i < n
IndexNorm(i, n) == IF i < 0 THEN i + n ELSE i
CellaValida(c, n) == IndexValid(c[1], n) /\ IndexValid(c[2], n)
CellaNorm(c, n) == <<IndexNorm(c[1], n), IndexNorm(c[2], n)>>

Celles(n) == (0 .. n - 1) \X (0 .. n - 1)

TaulaNova(n) == [c \in Celles(n) |-> RefCel(c[1], c[2])]

HeapTaulaNova(n) == [r \in {RefCel(c[1], c[2]) : c \in Celles(n)} |-> {}]

\* Mutant: the comparison with the token is forgotten.
DerivadorsTerminal_tots(g, paraula) ==
    {no_terminal \in DOMAIN g :
        \E produccio \in g[no_terminal] : Len(produccio) = 1}

DerivadorsTerminal(g, paraula) ==
    {no_terminal \in DOMAIN g :
        \E produccio \in g[no_terminal] :
            Len(produccio) = 1 /\ produccio[1] = paraula}

IndexPartDiag(d, kk) == <<d, d + kk>>

\* Mutant: taula[diag + k + 1][col + 1], one column too far.
IndexPartCol_fora(d, kk, c) == <<d + kk + 1, c + 1>>

\* Mutant: taula[diag + k][col], the right part starts one row too early.
IndexPartCol_mateix(d, kk, c) == <<d + kk, c>>

IndexPartCol(d, kk, c) == <<d + kk + 1, c>>

\* Mutant: clau = (no_termina_col, no_terminal_diag), the pair is swapped.
ClausTrobades_girat(part_diag, part_col, rb) ==
    {clau \in {<<C, B>> : B \in part_diag, C \in part_col} : clau \in DOMAIN rb}

ClausTrobades(part_diag, part_col, rb) ==
    {clau \in {<<B, C>> : B \in part_diag, C \in part_col} : clau \in DOMAIN rb}

\* Mutant: taula[diag][col] = self.regles_binaries[clau], the cell becomes the
\* set of the index itself, and what the cell held is added to it.
Actualitza_alias(h, t, cel, refs) ==
    IF refs = {}
    THEN [heap |-> h, taula |-> t]
    ELSE LET r0 == CHOOSE r \in refs : TRUE
         IN  [heap |-> [h EXCEPT ![r0] = @ \cup h[t[cel]] \cup UNION {h[r] : r \in refs}],
              taula |-> [t EXCEPT ![cel] = r0]]

\* taula[diag][col].update(self.regles_binaries[clau]) for every key found.
Actualitza(h, t, cel, refs) ==
    [heap |-> [h EXCEPT ![t[cel]] = @ \cup UNION {h[r] : r \in refs}],
     taula |-> t]

SenseCelles(h) == [r \in {x \in DOMAIN h : EsRefIdx(x)} |-> h[r]]

algoritme_cky(f) ==
    /\ pc = "inactiu"
    /\ frase' = f
    /\ UNCHANGED <<objecte, locals>>
    /\ IF EsNone(gramatica)
       THEN /\ pc' = "error"
            /\ UNCHANGED <<heap, taula, resultat, visites>>
       ELSE IF f = << >>
       THEN /\ pc' = "fet"
            /\ resultat' = IF modul = "cky"
                           THEN comprovar_derivacio_buida(gramatica, simbol_arrel)
                           ELSE comprovar_derivacio_buida_main(gramatica, simbol_arrel)
            /\ UNCHANGED <<heap, taula, visites>>
       ELSE /\ pc' = "base"
            /\ taula' = TaulaNova(Len(f))
            /\ heap' = HeapTaulaNova(Len(f)) @@ SenseCelles(heap)
            /\ visites' = [c \in Celles(Len(f)) |-> 0]
            /\ UNCHANGED resultat

CasBase ==
    /\ pc = "base"
    /\ LET n == Len(frase)
           paraula == frase[col + 1]
           ref == taula[<<col, col>>]
       IN  /\ heap' = [heap EXCEPT ![ref] = @ \cup DerivadorsTerminal(gramatica, paraula)]
           /\ visites' = [visites EXCEPT ![<<col, col>>] = @ + 1]
           /\ IF col + 1 < n
              THEN /\ col' = col + 1
                   /\ UNCHANGED <<pc, n_fila, diag, k>>
              ELSE IF 1 < n
              THEN /\ pc' = "inductiu"
                   /\ n_fila' = 1
                   /\ diag' = 0
                   /\ col' = 1
                   /\ k' = 0
              ELSE /\ pc' = "retorn"
                   /\ UNCHANGED locals
    /\ UNCHANGED <<objecte, frase, taula, resultat>>

Avanca ==
    LET n == Len(frase)
    IN  IF k + 1 < n_fila
        THEN /\ k' = k + 1
             /\ UNCHANGED <<pc, n_fila, diag, col>>
        ELSE IF diag + 1 < n - n_fila
        THEN /\ diag' = diag + 1
             /\ col' = diag + 1 + n_fila
             /\ k' = 0
             /\ UNCHANGED <<pc, n_fila>>
        ELSE IF n_fila + 1 < n
        THEN /\ n_fila' = n_fila + 1
             /\ diag' = 0
             /\ col' = n_fila + 1
             /\ k' = 0
             /\ UNCHANGED pc
        ELSE /\ pc' = "retorn"
             /\ UNCHANGED locals

CasInductiu ==
    /\ pc = "inductiu"
    /\ LET n == Len(frase)
           iD == IndexPartDiag(diag, k)
           iC == IndexPartCol(diag, k, col)
           desti == <<diag, col>>
       IN  IF ~(CellaValida(iD, n) /\ CellaValida(iC, n) /\ CellaValida(desti, n))
           THEN /\ pc' = "error"
                /\ UNCHANGED <<heap, taula, locals, visites>>
           ELSE LET part_diag == heap[taula[CellaNorm(iD, n)]]
                    part_col == heap[taula[CellaNorm(iC, n)]]
                    claus == ClausTrobades(part_diag, part_col, regles_binaries)
                    nou == IF part_diag = {} \/ part_col = {}
                           THEN [heap |-> heap, taula |-> taula]
                           ELSE Actualitza(heap, taula, desti,
                                           {regles_binaries[clau] : clau \in claus})
                IN  /\ heap' = nou.heap
                    /\ taula' = nou.taula
                    /\ visites' = [visites EXCEPT ![desti] = @ + 1]
                    /\ Avanca
    /\ UNCHANGED <<objecte, frase, resultat>>

\* Mutant: return bool(taula[0][n-1]), any non-terminal will do.
PertanyArrel_qualsevol(arrel, cella) == cella # {}

\* return self.simbol_arrel in taula[0][n-1]
PertanyArrel(arrel, cella) == arrel \in cella

Retorn ==
    /\ pc = "retorn"
    /\ LET n == Len(frase)
       IN  IF ~CellaValida(<<0, n - 1>>, n)
           THEN /\ pc' = "error"
                /\ UNCHANGED <<heap, taula, locals, visites, resultat>>
           ELSE /\ resultat' = PertanyArrel(simbol_arrel, heap[taula[<<0, n - 1>>]])
                /\ pc' = "fet"
                /\ taula' = << >>
                /\ heap' = SenseCelles(heap)
                /\ visites' = << >>
                /\ col' = 0 /\ n_fila' = 0 /\ diag' = 0 /\ k' = 0
    /\ UNCHANGED <<objecte, frase>>

\* The caller takes the value and goes on to its next sentence.
Descarta ==
    /\ pc = "fet"
    /\ pc' = "inactiu"
    /\ frase' = << >>
    /\ resultat' = FALSE
    /\ UNCHANGED <<objecte, heap, taula, locals, visites>>

-----------------------------------------------------------------------------
(* Construction and loading *)

\* Mutant: the index is computed before self.gramatica is assigned, from the
\* grammar the object held.
Carrega_antiga(vell, normes_gramatica, arrel) ==
    [gramatica |-> normes_gramatica,
     index |-> preprocessar_gramatica(IF EsNone(vell) THEN normes_gramatica ELSE vell),
     simbol_arrel |-> arrel]

\* The fields carregar_gramatica leaves in the object.
Carrega(vell, normes_gramatica, arrel) ==
    [gramatica |-> normes_gramatica,
     index |-> preprocessar_gramatica(normes_gramatica),
     simbol_arrel |-> arrel]

carregar_gramatica(normes_gramatica, arrel) ==
    /\ modul = "main"
    /\ pc = "inactiu"
    /\ LET nou == Carrega(gramatica, normes_gramatica, arrel)
       IN  /\ gramatica' = nou.gramatica
           /\ regles_binaries' = ReferenciesIndex(nou.index)
           /\ heap' = HeapIndex(nou.index)
           /\ simbol_arrel' = nou.simbol_arrel
    /\ carregat' = [normes |-> normes_gramatica, simbol |-> arrel,
                    recarrega |-> ~EsNone(gramatica)]
    /\ UNCHANGED <<modul, pc, frase, taula, locals, resultat, visites>>

InitLocals ==
    /\ pc = "inactiu"
    /\ frase = << >>
    /\ taula = << >>
    /\ col = 0 /\ n_fila = 0 /\ diag = 0 /\ k = 0
    /\ resultat = FALSE
    /\ visites = << >>

\* cky.py: Gramatica(normes_gramatica, simbol_arrel)
InitCky ==
    /\ modul = "cky"
    /\ \E entrada \in EntradesCky :
        LET normes_gramatica == entrada[1]
            arrel == entrada[2]
            idx == preprocessar_regles_binaries(normes_gramatica)
        IN  /\ gramatica = normes_gramatica
            /\ regles_binaries = ReferenciesIndex(idx)
            /\ heap = HeapIndex(idx)
            /\ simbol_arrel = arrel
            /\ carregat = [normes |-> normes_gramatica, simbol |-> arrel,
                           recarrega |-> FALSE]
    /\ InitLocals

\* main.py: Gramatica()
InitMain ==
    /\ modul = "main"
    /\ gramatica = None
    /\ regles_binaries = None
    /\ simbol_arrel = None
    /\ heap = << >>
    /\ carregat = None
    /\ InitLocals

Pas ==
    \/ \E f \in Frases(MaxLen) : algoritme_cky(f)
    \/ CasBase
    \/ CasInductiu
    \/ Retorn
    \/ Descarta

Init == InitCky

Next == Pas

Spec == Init /\ [][Next]_vars

NextMain ==
    \/ \E entrada \in EntradesCarrega : carregar_gramatica(entrada[1], entrada[2])
    \/ Pas

SpecMain == InitMain /\ [][NextMain]_vars

\* Both versions of the class.
InitTot == InitCky \/ InitMain

SpecTot == InitTot /\ [][NextMain]_vars

-----------------------------------------------------------------------------
(* algoritme_cky as a function of a freshly built object and a sentence:   *)
(* the same loops, run to the end on the values of the sets.               *)

TaulaBase(g, w) ==
    [c \in Celles(Len(w)) |->
        IF c[1] = c[2] THEN DerivadorsTerminal(g, w[c[1] + 1]) ELSE {}]

Divisio(T, idx, d, kk, c) ==
    LET part_diag == T[IndexPartDiag(d, kk)]
        part_col == T[IndexPartCol(d, kk, c)]
    IN  IF part_diag = {} \/ part_col = {}
        THEN T
        ELSE [T EXCEPT ![<<d, c>>] =
                 @ \cup UNION {idx[clau] : clau \in ClausTrobades(part_diag, part_col, idx)}]

RECURSIVE Omple(_, _, _, _, _, _)
Omple(T, idx, n, nf, d, kk) ==
    IF nf >= n THEN T
    ELSE IF d >= n - nf THEN Omple(T, idx, n, nf + 1, 0, 0)
    ELSE IF kk >= nf THEN Omple(T, idx, n, nf, d + 1, 0)
    ELSE Omple(Divisio(T, idx, d, kk, d + nf), idx, n, nf, d, kk + 1)

Reconeix(m, g, s, w) ==
    LET idx == IF m = "cky" THEN preprocessar_regles_binaries(g)
               ELSE preprocessar_gramatica(g)
    IN  IF w = << >>
        THEN IF m = "cky" THEN comprovar_derivacio_buida(g, s)
             ELSE comprovar_derivacio_buida_main(g, s)
        ELSE LET n == Len(w)
             IN  PertanyArrel(s, Omple(TaulaBase(g, w), idx, n, 1, 0, 0)[<<0, n - 1>>])

-----------------------------------------------------------------------------
(* Reference notions the claims are stated against *)

\* A derives tokens i..j (0-based, inclusive) of w by the unit and binary
\* productions of g.
RECURSIVE Deriva(_, _, _, _, _)
Deriva(g, w, A, i, j) ==
    /\ A \in DOMAIN g
    /\ IF i = j
       THEN <<w[i + 1]>> \in g[A]
       ELSE \E cos \in g[A] :
               /\ Len(cos) = 2
               /\ \E m \in i .. j - 1 :
                      Deriva(g, w, cos[1], i, m) /\ Deriva(g, w, cos[2], m + 1, j)

TeCosBuit(g, s) == s \in DOMAIN g /\ << >> \in g[s]

EnLlenguatge(g, s, w) ==
    IF w = << >> THEN TeCosBuit(g, s) ELSE Deriva(g, w, s, 0, Len(w) - 1)

Cella(c) == heap[taula[c]]

EnOmplert == pc \in {"base", "inductiu", "retorn"}

\* The two models of algoritme_cky agree (stepwise and as a function).
Coherencia ==
    pc = "fet" => resultat = Reconeix(modul, gramatica, simbol_arrel, frase)

-----------------------------------------------------------------------------
(* Claims *)

\* C1: algoritme_cky returns true iff the token sequence is in the language
\* of the grammar: for the empty sequence, the start symbol has a body of
\* zero symbols; otherwise the start symbol derives the whole sequence by
\* unit and binary productions.
C1_Membership ==
    pc = "fet" => resultat = EnLlenguatge(gramatica, simbol_arrel, frase)

\* C2: for the empty token sequence the result is true iff the start symbol
\* has a production whose body has zero symbols (false when the start symbol
\* is not a key of the grammar).
C2_Emptiness ==
    (pc = "fet" /\ frase = << >>) => resultat = TeCosBuit(gramatica, simbol_arrel)

\* Steps of a call still to run: the position in the loops, as a number that
\* every step of a call must raise and that the sentence's length bounds.
Progres ==
    LET n == Len(frase)
        B == n + 1
    IN  CASE pc = "base" -> col
          [] pc = "inductiu" -> n + (n_fila * B + diag) * B + k
          [] pc = "retorn" -> n + B * B * B
          [] OTHER -> n + B * B * B + 1

C3_SenseError ==
    /\ ~EsNone(gramatica) => pc # "error"
    /\ pc = "fet" =>
           /\ resultat \in BOOLEAN
           /\ simbol_arrel \notin DOMAIN gramatica => resultat = FALSE
    /\ EnOmplert => ENABLED (CasBase \/ CasInductiu \/ Retorn)

C3_Acaba ==
    EnOmplert =>
        LET B == Len(frase) + 1
        IN  /\ pc' # "error"
            /\ Progres' > Progres
            /\ Progres' <= B + B * B * B

\* C3: for any grammar, any start symbol (also one that is not a key) and any
\* sentence (also the empty one), a call on an object that was given a grammar
\* never raises, every step of it is followed by another until it returns, it
\* returns a boolean, and with a start symbol absent from the grammar it
\* returns false.
C3_Total == []C3_SenseError /\ [][C3_Acaba]_vars

\* C3 witness: a call on a sentence of the greatest length returned false
\* for a start symbol that is not a key of a grammar that has rules.
C3_Witness ==
    /\ pc = "fet"
    /\ Len(frase) = MaxLen
    /\ DOMAIN gramatica # {}
    /\ simbol_arrel \notin DOMAIN gramatica
    /\ resultat = FALSE

SenseMalformats(g) == [A \in DOMAIN g |-> {cos \in g[A] : Len(cos) <= 2}]

TeMalformats(g) == \E A \in DOMAIN g : \E cos \in g[A] : Len(cos) > 2

\* C4: bodies of three or more symbols are ignored: no error is raised, the
\* binary index is the index of the grammar without them, and every result
\* is the result a fresh object built from the grammar without them gives.
C4_MalformatsIgnorats ==
    LET neta == SenseMalformats(gramatica)
    IN  /\ pc # "error"
        /\ ValorIndex(regles_binaries, heap) = preprocessar_regles_binaries(neta)
        /\ pc = "fet" => resultat = Reconeix("cky", neta, simbol_arrel, frase)

\* C4 witness: a grammar with malformed bodies accepted a sentence of two or
\* more tokens.
C4_Witness ==
    /\ pc = "fet"
    /\ TeMalformats(gramatica)
    /\ Len(frase) >= 2
    /\ resultat = TRUE

TeDerivador(g, t) == \E A \in DOMAIN g : <<t>> \in g[A]

SenseDerivador == {p \in 0 .. Len(frase) - 1 : ~TeDerivador(gramatica, frase[p + 1])}

\* C5: when position p holds a token no unit production derives, cell (p,p)
\* stays empty during the whole fill, every cell (i,j) with i <= p <= j is
\* empty once the fill has finished, the call returns false, and no error is
\* raised.
C5_TokenDesconegut ==
    /\ EnOmplert =>
           \A p \in SenseDerivador :
               /\ Cella(<<p, p>>) = {}
               /\ pc = "retorn" =>
                      \A c \in Celles(Len(frase)) :
                          (c[1] <= p /\ p <= c[2]) => Cella(c) = {}
    /\ (pc = "fet" /\ SenseDerivador # {}) => resultat = FALSE
    /\ SenseDerivador # {} => pc # "error"

\* C5 witness: the fill of a sentence of the greatest length has finished,
\* its middle token has no deriver and the other tokens have one, and some
\* binary rule could join two cells.
C5_Witness ==
    /\ pc = "retorn"
    /\ Len(frase) = MaxLen
    /\ SenseDerivador = {1}
    /\ DOMAIN regles_binaries # {}

UnitariaArrel(g, s, t) == s \in DOMAIN g /\ <<t>> \in g[s]

\* C6: for a sentence of one token the inductive loop body never runs and the
\* result is true iff the start symbol itself has the unit production
\* start -> token; G2 rejects "a" and "b", G1 accepts both.
C6_UnToken ==
    Len(frase) = 1 =>
        /\ pc # "inductiu"
        /\ pc = "fet" =>
               /\ resultat = UnitariaArrel(gramatica, simbol_arrel, frase[1])
               /\ (gramatica = G2 /\ simbol_arrel = "S") => resultat = FALSE
               /\ (gramatica = G1 /\ simbol_arrel = "S") => resultat = TRUE

\* C6 witness: G2 with start S has rejected "a", which A (reachable from S)
\* derives by a unit production.
C6_Witness ==
    /\ pc = "fet"
    /\ gramatica = G2
    /\ simbol_arrel = "S"
    /\ frase = <<"a">>
    /\ resultat = FALSE

ReferenciesDe(f) == {f[x] : x \in DOMAIN f}

C7_Pas ==
    /\ gramatica' = gramatica
    /\ regles_binaries' = regles_binaries
    /\ simbol_arrel' = simbol_arrel
    /\ \A r \in ReferenciesDe(regles_binaries) : r \in DOMAIN heap' /\ heap'[r] = heap[r]
    /\ \A r \in DOMAIN heap \cap DOMAIN heap' :
           heap'[r] # heap[r] => r \in ReferenciesDe(taula)
    /\ ReferenciesDe(taula') \cap ReferenciesDe(regles_binaries') = {}
    /\ \A c1 \in DOMAIN taula' : \A c2 \in DOMAIN taula' :
           c1 # c2 => taula'[c1] # taula'[c2]
    /\ (pc = "inactiu" /\ pc' = "base") =>
           \A r \in ReferenciesDe(taula') : r \notin DOMAIN heap /\ heap'[r] = {}
    /\ pc' \in {"fet", "inactiu"} => taula' = << >>

\* C7: every step of every call leaves gramatica, regles_binaries (its keys
\* and the contents of each of its sets) and simbol_arrel as they were; a step
\* changes only sets of the call's own table; no cell is a set of the index
\* or the set of another cell; the table of a call is made of sets that did
\* not exist before the call and is gone when the call has returned.
C7_NomesLectura == [][C7_Pas]_vars

\* C7 witness: the fill has finished and put into the top cell the contents
\* of a set of the index.
C7_Witness ==
    /\ pc = "retorn"
    /\ Len(frase) = MaxLen
    /\ Cella(<<0, MaxLen - 1>>) # {}
    /\ Cardinality(DOMAIN regles_binaries) >= 2

DerivadorsTram(g, w, i, j) == {A \in DOMAIN g : Deriva(g, w, A, i, j)}

\* C8: during the fill every cell (i,j) with i <= j holds only non-terminals
\* that derive tokens i..j and every cell with i > j is empty; once the fill
\* has finished every cell (i,j) with i <= j holds exactly the non-terminals
\* that derive tokens i..j.
C8_InvariantTaula ==
    EnOmplert =>
        \A c \in Celles(Len(frase)) :
            IF c[1] > c[2]
            THEN Cella(c) = {}
            ELSE LET deriven == DerivadorsTram(gramatica, frase, c[1], c[2])
                 IN  /\ Cella(c) \subseteq deriven
                     /\ pc = "retorn" => Cella(c) = deriven

\* C8 witness: the fill of a sentence of the greatest length has finished and
\* the top cell holds two non-terminals or more.
C8_Witness ==
    /\ pc = "retorn"
    /\ Len(frase) = MaxLen
    /\ Cardinality(Cella(<<0, MaxLen - 1>>)) >= 2

Tram(c) == c[2] - c[1] + 1

TotalVisites(c) ==
    IF c[1] = c[2] THEN 1 ELSE IF c[1] < c[2] THEN c[2] - c[1] ELSE 0

Completa(c) == visites[c] = TotalVisites(c)

\* C9: the fill goes by increasing span length: while a cell of span L is
\* written, the two cells read have a shorter span and have received all
\* their writes, every cell of a shorter span is complete and no cell of a
\* longer span has been written; no cell is written more often than its
\* loops provide, so a complete cell is never written again; the final
\* answer is read when every cell is complete.
C9_OrdreOmplert ==
    EnOmplert =>
        LET n == Len(frase)
        IN  /\ \A c \in Celles(n) : visites[c] <= TotalVisites(c)
            /\ pc = "base" => \A c \in Celles(n) : c[1] # c[2] => visites[c] = 0
            /\ pc = "inductiu" =>
                   LET L == n_fila + 1
                       esq == IndexPartDiag(diag, k)
                       dre == IndexPartCol(diag, k, col)
                   IN  /\ Tram(<<diag, col>>) = L
                       /\ esq \in Celles(n) /\ dre \in Celles(n)
                       /\ 1 <= Tram(esq) /\ Tram(esq) < L
                       /\ 1 <= Tram(dre) /\ Tram(dre) < L
                       /\ Completa(esq) /\ Completa(dre)
                       /\ \A c \in Celles(n) :
                              /\ Tram(c) < L => Completa(c)
                              /\ Tram(c) > L => visites[c] = 0
            /\ pc = "retorn" => \A c \in Celles(n) : Completa(c)

\* C9 witness: the last split of the longest span of a sentence of the
\* greatest length is about to read a cell of span MaxLen - 1.
C9_Witness ==
    /\ pc = "inductiu"
    /\ Len(frase) = MaxLen
    /\ n_fila = MaxLen - 1
    /\ k = n_fila - 1
    /\ Cella(IndexPartDiag(diag, k)) # {}

IndexEsperat(g) ==
    LET cossos == UNION {g[A] : A \in DOMAIN g}
    IN  [clau \in {cos \in cossos : Len(cos) = 2} |-> {A \in DOMAIN g : clau \in g[A]}]

\* C10: once carregar_gramatica has run, however often, gramatica and
\* simbol_arrel are the arguments of the most recent load, regles_binaries is
\* the index of the most recently loaded rules with no key, member or set
\* left from an earlier grammar, and every result is the one a fresh object
\* loaded only with the last grammar and start symbol gives.
C10_DarreraCarrega ==
    ~EsNone(gramatica) =>
        /\ gramatica = carregat.normes
        /\ simbol_arrel = carregat.simbol
        /\ ValorIndex(regles_binaries, heap) = IndexEsperat(carregat.normes)
        /\ {r \in DOMAIN heap : EsRefIdx(r)} = ReferenciesDe(regles_binaries)
        /\ pc = "fet" =>
               resultat = Reconeix("main", carregat.normes, carregat.simbol, frase)

\* C10 witness: an object loaded more than once has accepted a sentence of
\* two or more tokens.
C10_Witness ==
    /\ ~EsNone(gramatica)
    /\ carregat.recarrega
    /\ pc = "fet"
    /\ Len(frase) >= 2
    /\ resultat = TRUE

=============================================================================
